---- MODULE Spec2Model ----
(***************************************************************************)
(* State-management core of the Expo + Redux todo demo (src/app/index.jsx): *)
(* the Redux store (ui slice, todos slice), the component handlers that    *)
(* dispatch to it, and the snapshot the components last rendered.          *)
(***************************************************************************)
EXTENDS Integers, Sequences, FiniteSets, TLC

(* ------------------------------ bounds --------------------------------- *)
\* number of ids nanoid() hands out in a run
MaxAdds == 3

Ids == 1..MaxAdds

\* texts, as sequences of characters: empty, whitespace only, padded
Titles == {<<>>, <<" ">>, <<" ", "a", " ">>}

VARIABLES
  items,                    \* store.todos.items
  darkMode,                 \* store.ui.darkMode
  showBanner,               \* store.ui.showBanner
  doneNotificationVisible,  \* store.ui.doneNotificationVisible
  title,                    \* TodosCard's useState text
  view,                     \* what the components rendered last
  pc,                       \* position inside handleToggleDone
  issued,                   \* ids nanoid() has returned
  now,                      \* what Date.now() returned last
  last                      \* the intent being applied / applied last

vars == <<items, darkMode, showBanner, doneNotificationVisible, title, view,
          pc, issued, now, last>>

(* --------------------------- pure functions ---------------------------- *)
\* String.prototype.trim, on a sequence of characters
RECURSIVE trimStart(_)
trimStart(s) ==
  IF s = <<>> THEN s
  ELSE IF Head(s) = " " THEN trimStart(Tail(s)) ELSE s

RECURSIVE trimEnd(_)
trimEnd(s) ==
  IF s = <<>> THEN s
  ELSE IF s[Len(s)] = " " THEN trimEnd(SubSeq(s, 1, Len(s) - 1)) ELSE s

trim(s) == trimEnd(trimStart(s))

\* an id taken from the clock instead
nanoidFromClock(used) == now + 1

\* nanoid(): a value it has not returned before
nanoid(used) == CHOOSE i \in Ids \ used : \A j \in Ids \ used : i <= j

\* addTodo.prepare(title)
prepare(t, id, at) == [id |-> id, title |-> t, done |-> FALSE, createdAt |-> at]

\* splice(1, 0, payload) in place of unshift
addTodoSecond(its, payload) ==
  IF its = <<>> THEN <<payload>> ELSE <<Head(its), payload>> \o Tail(its)

\* push in place of unshift
addTodoPush(its, payload) == its \o <<payload>>

\* addTodo.reducer: state.items.unshift(action.payload)
addTodo(its, payload) == <<payload>> \o its

\* Array.prototype.find as an index: the first match, 0 when there is none
RECURSIVE findFrom(_, _, _)
findFrom(its, id, k) ==
  IF k > Len(its) THEN 0
  ELSE IF its[k].id = id THEN k ELSE findFrom(its, id, k + 1)

find(its, id) == findFrom(its, id, 1)

\* the flip applied to every task, the id test left out
toggleTodoEvery(its, id) ==
  [k \in 1..Len(its) |-> [its[k] EXCEPT !.done = ~@]]

\* t.done = true in place of t.done = !t.done
toggleTodoSet(its, id) ==
  LET k == find(its, id) IN
  IF k = 0 THEN its
  ELSE [its EXCEPT ![k] = [@ EXCEPT !.done = TRUE]]

\* toggleTodo: const t = find(...); if (t) t.done = !t.done
toggleTodo(its, id) ==
  LET k == find(its, id) IN
  IF k = 0 THEN its
  ELSE [its EXCEPT ![k] = [@ EXCEPT !.done = ~@]]

\* the filter's test the wrong way round
removeTodoKeep(its, id) == SelectSeq(its, LAMBDA x : x.id = id)

\* removeTodo: state.items.filter((x) => x.id !== action.payload)
removeTodo(its, id) == SelectSeq(its, LAMBDA x : x.id # id)

\* state.items = [] in place of the filter
clearTodosAll(its) == <<>>

\* clearTodos: state.items.filter((item) => !item.done)
clearTodos(its) == SelectSeq(its, LAMBDA x : ~x.done)

\* the filter's test the wrong way round
completedTasksNot(its) == SelectSeq(its, LAMBDA x : ~x.done)

\* Donecard's selector: s.todos.items.filter((item) => item.done)
completedTasks(its) == SelectSeq(its, LAMBDA x : x.done)

\* TodosCard: items.some((item) => item.done)
doneExists(its) == \E k \in 1..Len(its) : its[k].done

\* what a render captures for the handlers: each item's id and done, the flags
snapshot(its, sb, dnv) ==
  [items |-> [k \in 1..Len(its) |-> [id |-> its[k].id, done |-> its[k].done]],
   showBanner |-> sb, doneNotificationVisible |-> dnv]

(* --------------------------- bookkeeping ------------------------------- *)
\* some task's done flag goes false -> true / true -> false between its and its2
rises(its, its2) ==
  \E k \in 1..Len(its) :
    /\ ~its[k].done
    /\ \E m \in 1..Len(its2) : its2[m].id = its[k].id /\ its2[m].done

falls(its, its2) ==
  \E k \in 1..Len(its) :
    /\ its[k].done
    /\ \E m \in 1..Len(its2) : its2[m].id = its[k].id /\ ~its2[m].done

\* the record of an intent: which handler, what its dispatches did so far,
\* how often the store called its subscribers, the flag before the intent
intent(op, rose, fell, changed, notified, dnv0) ==
  [op |-> op, rose |-> rose, fell |-> fell, changed |-> changed,
   notified |-> notified, dnv0 |-> dnv0]

todos == <<items, issued, now>>
ui == <<darkMode, showBanner, doneNotificationVisible>>
screen == <<title, view, pc>>

\* doneNotificationVisible: true in uiSlice's initialState
InitNotified ==
  /\ items = <<>>
  /\ darkMode = FALSE
  /\ showBanner = TRUE
  /\ doneNotificationVisible = TRUE
  /\ title = <<>>
  /\ view = snapshot(<<>>, TRUE, TRUE)
  /\ pc = "idle"
  /\ issued = {}
  /\ now = 0
  /\ last = intent("init", FALSE, FALSE, FALSE, 0, FALSE)

Init ==
  /\ items = <<>>
  /\ darkMode = FALSE
  /\ showBanner = TRUE
  /\ doneNotificationVisible = FALSE
  /\ title = <<>>
  /\ view = snapshot(<<>>, TRUE, FALSE)
  /\ pc = "idle"
  /\ issued = {}
  /\ now = 0
  /\ last = intent("init", FALSE, FALSE, FALSE, 0, FALSE)

(* ------------------- one dispatch to the store ------------------------- *)
\* Date.now(): the clock has moved on since the last call, or it has not
DateNow(t) == {t, t + 1}

\* dispatch(addTodo(t)): prepare, then the reducer
dispatchAddTodo(t) ==
  /\ issued # Ids
  /\ \E at \in DateNow(now) :
       LET id == nanoid(issued) IN
       /\ items' = addTodo(items, prepare(t, id, at))
       /\ issued' = issued \cup {id}
       /\ now' = at
  /\ UNCHANGED ui

dispatchToggleTodo(id) ==
  /\ items' = toggleTodo(items, id)
  /\ UNCHANGED <<issued, now, ui>>

dispatchRemoveTodo(id) ==
  /\ items' = removeTodo(items, id)
  /\ UNCHANGED <<issued, now, ui>>

dispatchClearTodos ==
  /\ items' = clearTodos(items)
  /\ UNCHANGED <<issued, now, ui>>

dispatchToggleDarkMode ==
  /\ darkMode' = ~darkMode
  /\ UNCHANGED <<todos, showBanner, doneNotificationVisible>>

\* state.showBanner = !state.showBanner in place of = false
dispatchDismissBannerFlip ==
  /\ showBanner' = ~showBanner
  /\ UNCHANGED <<todos, darkMode, doneNotificationVisible>>

dispatchDismissBanner ==
  /\ showBanner' = FALSE
  /\ UNCHANGED <<todos, darkMode, doneNotificationVisible>>

\* the flag flipped in place of set
dispatchShowDoneNotificationFlip ==
  /\ doneNotificationVisible' = ~doneNotificationVisible
  /\ UNCHANGED <<todos, darkMode, showBanner>>

dispatchShowDoneNotification ==
  /\ doneNotificationVisible' = TRUE
  /\ UNCHANGED <<todos, darkMode, showBanner>>

dispatchDismissDoneNotification ==
  /\ doneNotificationVisible' = FALSE
  /\ UNCHANGED <<todos, darkMode, showBanner>>

\* the record of a dispatch of toggleTodo by a handler
single(op) ==
  last' = intent(op, rises(items, items'), falls(items, items'),
                 <<items, ui>>' # <<items, ui>>, 1, doneNotificationVisible)

\* the record of any other dispatch
direct(op) ==
  last' = intent(op, FALSE, FALSE, <<items, ui>>' # <<items, ui>>, 1, FALSE)

(* ---------------------- the components' handlers ----------------------- *)
\* the body shared by addTask and onSubmitEditing, run with t in the input
\* (onChangeText={setTitle} put it there)
submit(t) ==
  /\ pc = "idle"
  /\ IF trim(t) = <<>>
       THEN /\ title' = t
            /\ last' = intent("none", FALSE, FALSE, FALSE, 0, FALSE)
            /\ UNCHANGED <<todos, ui>>
       ELSE /\ dispatchAddTodo(trim(t))
            /\ title' = <<>>
            /\ direct("addTodo")
  /\ UNCHANGED <<view, pc>>

\* Button "Add"
addTask == \E t \in Titles : submit(t)

\* TextInput onSubmitEditing
onSubmitEditing == \E t \in Titles : submit(t)

\* the notification decided from what the toggle did in the store
handleToggleDoneFromStore ==
  /\ pc = "idle"
  /\ \E k \in 1..Len(view.items) :
       dispatchToggleTodo(view.items[k].id)
  /\ pc' = IF rises(items, items') THEN "showDoneNotification" ELSE "idle"
  /\ single("toggleTodo")
  /\ UNCHANGED <<title, view>>

\* Button "DONE" of a rendered item: handleToggleDone(item.id, item.done),
\* up to and including dispatch(toggleTodo(id))
handleToggleDone ==
  /\ pc = "idle"
  /\ \E k \in 1..Len(view.items) :
       LET id == view.items[k].id
           currentDone == view.items[k].done
       IN /\ dispatchToggleTodo(id)
          /\ pc' = IF ~currentDone THEN "showDoneNotification" ELSE "idle"
  /\ single("toggleTodo")
  /\ UNCHANGED <<title, view>>

\* handleToggleDone, the rest: if (!currentDone) dispatch(showDoneNotification())
handleToggleDoneShow ==
  /\ pc = "showDoneNotification"
  /\ dispatchShowDoneNotification
  /\ pc' = "idle"
  /\ last' = [last EXCEPT !.changed = @ \/ ~doneNotificationVisible,
                          !.notified = @ + 1]
  /\ UNCHANGED <<title, view>>

\* Button "Remove" of a rendered item, in either card
pressRemove ==
  /\ pc = "idle"
  /\ \E k \in 1..Len(view.items) : dispatchRemoveTodo(view.items[k].id)
  /\ direct("removeTodo")
  /\ UNCHANGED screen

\* Button "Undo" of an item the Done card rendered
pressUndo ==
  /\ pc = "idle"
  /\ \E k \in 1..Len(view.items) :
       /\ view.items[k].done
       /\ dispatchToggleTodo(view.items[k].id)
  /\ single("toggleTodo")
  /\ UNCHANGED screen

\* the button rendered without the doneExists test
pressClearCompletedAlways ==
  /\ pc = "idle"
  /\ dispatchClearTodos
  /\ direct("clearTodos")
  /\ UNCHANGED screen

\* Button "Clear Completed", rendered when doneExists
pressClearCompleted ==
  /\ pc = "idle"
  /\ doneExists(view.items)
  /\ dispatchClearTodos
  /\ direct("clearTodos")
  /\ UNCHANGED screen

\* Switch onValueChange
pressDarkModeSwitch ==
  /\ pc = "idle"
  /\ dispatchToggleDarkMode
  /\ direct("toggleDarkMode")
  /\ UNCHANGED screen

\* "Got it" of the info banner, rendered when showBanner
pressDismissBanner ==
  /\ pc = "idle"
  /\ view.showBanner
  /\ dispatchDismissBanner
  /\ direct("dismissBanner")
  /\ UNCHANGED screen

\* "Got it" of the done banner, rendered when doneNotificationVisible
pressDismissDoneNotification ==
  /\ pc = "idle"
  /\ view.doneNotificationVisible
  /\ dispatchDismissDoneNotification
  /\ direct("dismissDoneNotification")
  /\ UNCHANGED screen

\* the components render the store's current state; React commits it some
\* time after the dispatch, and until then the handlers of the previous
\* render (with its item.id and item.done) are the ones a press calls
render ==
  /\ pc = "idle"
  /\ view # snapshot(items, showBanner, doneNotificationVisible)
  /\ view' = snapshot(items, showBanner, doneNotificationVisible)
  /\ UNCHANGED <<todos, ui, title, pc, last>>

Next ==
  \/ addTask
  \/ onSubmitEditing
  \/ handleToggleDone
  \/ handleToggleDoneShow
  \/ pressRemove
  \/ pressUndo
  \/ pressClearCompleted
  \/ pressDarkModeSwitch
  \/ pressDismissBanner
  \/ pressDismissDoneNotification
  \/ render

Spec == Init /\ [][Next]_vars

(* ------------- the store alone, behind its dispatch interface ---------- *)
\* store.dispatch(a) for one action a of a slice: reducers run, subscribers
\* are called once
storeAddTodo ==
  /\ \E t \in Titles : dispatchAddTodo(t)
  /\ direct("addTodo")
  /\ UNCHANGED screen

storeToggleTodo ==
  /\ \E id \in Ids : dispatchToggleTodo(id)
  /\ direct("toggleTodo")
  /\ UNCHANGED screen

storeRemoveTodo ==
  /\ \E id \in Ids : dispatchRemoveTodo(id)
  /\ direct("removeTodo")
  /\ UNCHANGED screen

storeClearTodos ==
  /\ dispatchClearTodos
  /\ direct("clearTodos")
  /\ UNCHANGED screen

storeToggleDarkMode ==
  /\ dispatchToggleDarkMode
  /\ direct("toggleDarkMode")
  /\ UNCHANGED screen

storeDismissBanner ==
  /\ dispatchDismissBanner
  /\ direct("dismissBanner")
  /\ UNCHANGED screen

storeShowDoneNotification ==
  /\ dispatchShowDoneNotification
  /\ direct("showDoneNotification")
  /\ UNCHANGED screen

storeDismissDoneNotification ==
  /\ dispatchDismissDoneNotification
  /\ direct("dismissDoneNotification")
  /\ UNCHANGED screen

NextStore ==
  \/ storeAddTodo
  \/ storeToggleTodo
  \/ storeRemoveTodo
  \/ storeClearTodos
  \/ storeToggleDarkMode
  \/ storeDismissBanner
  \/ storeShowDoneNotification
  \/ storeDismissDoneNotification

SpecStore == Init /\ [][NextStore]_vars

(* ============================== claims ================================= *)
ids(its) == {its[k].id : k \in 1..Len(its)}

NoDup(its) == \A k, m \in 1..Len(its) : k # m => its[k].id # its[m].id

\* its with the element at position k taken out
without(its, k) ==
  [j \in 1..(Len(its) - 1) |-> IF j < k THEN its[j] ELSE its[j + 1]]

\* the tasks of its that are not done, in the order of its
RECURSIVE undone(_)
undone(its) ==
  IF its = <<>> THEN <<>>
  ELSE IF Head(its).done THEN undone(Tail(its))
       ELSE <<Head(its)>> \o undone(Tail(its))

\* C1: when an intent (DONE button, Undo button) has flipped a task's done
\* flag from false to true, doneNotificationVisible is true once the intent
\* is complete.
C1_CompletionShowsNotification ==
  (pc = "idle" /\ last.op = "toggleTodo" /\ last.rose) => doneNotificationVisible

\* C2: a toggle intent that has flipped a task from true to false leaves
\* doneNotificationVisible as it was: false before the intent, false after.
C2_UndoLeavesNotification ==
  (pc = "idle" /\ last.op = "toggleTodo" /\ last.fell /\ ~last.dnv0)
    => ~doneNotificationVisible

\* C3: no state that the store's subscribers are called in has the task
\* flipped to done by the intent and the notification not yet set by it.
C3_ToggleIntentAtomic ==
  ~(pc = "showDoneNotification" /\ last.rose /\ ~doneNotificationVisible)

\* C4: an intent that has changed the state has called the subscribers
\* exactly once.
C4_NotifiedExactlyOnce ==
  (pc = "idle" /\ last.changed) => last.notified = 1

\* C5: every task in the collection has a title that is non-empty after
\* trimming (an add with an empty or whitespace-only title inserts nothing),
\* also for addTodo dispatched on the store directly.
C5_NoBlankTitle ==
  \A k \in 1..Len(items) : trim(items[k].title) # <<>>

\* C6: an add with a title that is non-empty after trimming makes the
\* collection one longer, puts the new task at index 0 with done = false, and
\* leaves the earlier tasks after it, unchanged and in their order.
C6_AddPrepends ==
  [][\A t \in Titles :
       (trim(t) # <<>> /\ dispatchAddTodo(t)) =>
         /\ Len(items') = Len(items) + 1
         /\ items'[1].done = FALSE
         /\ \A k \in 1..Len(items) : items'[k + 1] = items[k]]_vars

C6_Witness ==
  /\ last.op = "addTodo"
  /\ Len(items) = 3
  /\ trim(items[1].title) # <<>>
  /\ items[2].done

\* C7: no two tasks of the collection share an id, and a task that enters the
\* collection gets an id that no earlier task had, removed or cleared ones
\* included, whatever the createdAt values are.
C7_IdsUnique ==
  [][/\ NoDup(items')
     /\ \A k \in 1..Len(items') :
          items'[k].id \notin ids(items) => items'[k].id \notin issued]_vars

C7_Witness ==
  /\ last.op = "addTodo"
  /\ Len(items) = 2
  /\ items[1].createdAt = items[2].createdAt
  /\ Cardinality(issued) = 3

\* C8: clearCompleted leaves exactly the tasks that are not done, unchanged
\* and in their order; none of them is done; a clearCompleted right after it
\* changes nothing; with no done task the collection stays as it is.
C8_ClearCompleted ==
  [][last'.op = "clearTodos" =>
       /\ items' = undone(items)
       /\ \A k \in 1..Len(items') : ~items'[k].done
       /\ clearTodos(items') = items'
       /\ (~doneExists(items) => items' = items)]_vars

C8_Witness ==
  /\ last.op = "clearTodos"
  /\ last.changed
  /\ Len(items) = 2

\* C9: after toggleTask(id) on a task of the collection, a second
\* toggleTask(id) gives back the collection as it was before the first.
C9_ToggleTwice ==
  [][\A id \in ids(items) :
       (last'.op = "toggleTodo" /\ dispatchToggleTodo(id)) =>
         /\ toggleTodo(items', id) = items
         /\ \A k \in 1..Len(items) :
              items[k].id = id => items'[k].done = ~items[k].done]_vars

C9_Witness ==
  /\ last.op = "toggleTodo"
  /\ last.changed
  /\ \E k \in 1..Len(items) : ~items[k].done /\ k < Len(items)
  /\ \E k \in 1..Len(items) : items[k].done

\* C10: removeTask(id) with an id that no task has leaves the collection as
\* it is; with an id of the collection it takes out that one task and leaves
\* the others unchanged and in their order.
C10_Remove ==
  [][\A id \in Ids :
       (last'.op = "removeTodo" /\ dispatchRemoveTodo(id)) =>
         IF id \notin ids(items) THEN items' = items
         ELSE \E k \in 1..Len(items) :
                /\ items[k].id = id
                /\ items' = without(items, k)]_vars

C10_Witness ==
  /\ last.op = "removeTodo"
  /\ last.changed
  /\ Len(items) = 2
  /\ items[1].id = 3
  /\ items[2].id = 1

\* C11: toggleTask(id) changes nothing but the done flag of the task with
\* that id: length and order, every id, title and createdAt, and the done
\* flag of every other task stay; with no such task nothing changes.
C11_ToggleFrame ==
  [][\A id \in Ids :
       (last'.op = "toggleTodo" /\ dispatchToggleTodo(id)) =>
         /\ Len(items') = Len(items)
         /\ \A k \in 1..Len(items) :
              /\ items'[k].id = items[k].id
              /\ items'[k].title = items[k].title
              /\ items'[k].createdAt = items[k].createdAt
              /\ items[k].id # id => items'[k].done = items[k].done
         /\ id \notin ids(items) => items' = items]_vars

C11_Witness ==
  /\ last.op = "toggleTodo"
  /\ last.changed
  /\ Len(items) = 3
  /\ items[2].done
  /\ ~items[1].done
  /\ ~items[3].done

\* C12: doneNotificationVisible goes from true to false by
\* dismissDoneNotification and by nothing else: adding, toggling, removing,
\* clearing, toggleDarkMode, dismissBanner and a further showDoneNotification
\* all leave a visible notification visible.
C12_OnlyDismissHides ==
  [][(doneNotificationVisible /\ ~doneNotificationVisible') =>
       last'.op = "dismissDoneNotification"]_vars

\* the notification is up and the done tasks have just been cleared away
C12_Witness ==
  /\ doneNotificationVisible
  /\ last.op = "clearTodos"
  /\ last.changed
  /\ items = <<>>

\* C13: showBanner is one-way: once false it is false after every later step.
C13_BannerOneWay == [][~showBanner => ~showBanner']_vars

\* the banner is gone and dismissBanner has been dispatched again
C13_Witness ==
  /\ ~showBanner
  /\ last.op = "dismissBanner"
  /\ ~last.changed

\* C14: but for the notification a completion raises, no action has an
\* effect across the two stores: an add, a remove, a clear and a toggle that
\* takes a task from done to undone leave the three flags as they are;
\* toggleDarkMode, dismissBanner, showDoneNotification and
\* dismissDoneNotification leave the collection as it is and change no flag
\* but their own.
C14_NoCrossStoreEffect ==
  /\ [][/\ last'.op \in {"addTodo", "removeTodo", "clearTodos"} => ui' = ui
        /\ last'.op = "toggleTodo" =>
             /\ darkMode' = darkMode
             /\ showBanner' = showBanner
        /\ last'.op = "toggleDarkMode" =>
             /\ items' = items
             /\ showBanner' = showBanner
             /\ doneNotificationVisible' = doneNotificationVisible
        /\ last'.op = "dismissBanner" =>
             /\ items' = items
             /\ darkMode' = darkMode
             /\ doneNotificationVisible' = doneNotificationVisible
        /\ (last'.op = "dismissDoneNotification"
              \/ pc = "showDoneNotification") =>
             /\ items' = items
             /\ darkMode' = darkMode
             /\ showBanner' = showBanner]_vars
  /\ []((pc = "idle" /\ last.op = "toggleTodo" /\ last.fell) =>
          doneNotificationVisible = last.dnv0)

\* C15: the collection is ordered newest first: of two tasks the one at the
\* lower index was added later.  nanoid hands out the ids of Ids in
\* increasing order, so the task added later is the one with the greater id.
C15_NewestFirst ==
  \A k \in 1..Len(items) : \A m \in 1..Len(items) :
    k < m => items[k].id > items[m].id

\* the first and the last of three tasks, left after the middle one was
\* completed and cleared
C15_Witness ==
  /\ last.op = "clearTodos"
  /\ last.changed
  /\ Len(items) = 2
  /\ items[1].id = 3
  /\ items[2].id = 1
  /\ issued = Ids

\* C16: what the Done card reads, completedTasks(items), is in every
\* reachable state exactly the done tasks of the collection in collection
\* order: each entry is a done task of the collection, each done task of the
\* collection is an entry, once, and the entries keep the collection's order.
C16_CompletedView ==
  LET c == completedTasks(items) IN
  /\ \A k \in 1..Len(c) :
       c[k].done /\ \E j \in 1..Len(items) : items[j] = c[k]
  /\ \A j \in 1..Len(items) :
       items[j].done => \E k \in 1..Len(c) : c[k] = items[j]
  /\ Len(c) = Cardinality({j \in 1..Len(items) : items[j].done})
  /\ \A k \in 1..Len(c) : \A m \in 1..Len(c) :
       k < m => find(items, c[k].id) < find(items, c[m].id)

\* done, undone, done: the view skips the task in the middle
C16_Witness ==
  /\ Len(items) = 3
  /\ items[1].done
  /\ ~items[2].done
  /\ items[3].done
  /\ Len(completedTasks(items)) = 2
  /\ completedTasks(items)[2] = items[3]

\* C17: the store starts with an empty collection, darkMode false,
\* showBanner true and doneNotificationVisible false (the state before any
\* dispatch is the one whose record is "init").
C17_InitialState ==
  last.op = "init" =>
    /\ items = <<>>
    /\ darkMode = FALSE
    /\ showBanner = TRUE
    /\ doneNotificationVisible = FALSE

\* the store before its first dispatch
C17_Witness ==
  /\ last.op = "init"
  /\ last.notified = 0
  /\ issued = {}

\* C18: handleToggleDone(id, currentDone) decides the notification from the
\* rendered item's done value, not from the store.  With currentDone false
\* (the handler is past its toggle, about to dispatch showDoneNotification)
\* it ends with doneNotificationVisible true, and it got there by the toggle
\* of an item rendered undone, whatever that toggle did in the store; a
\* toggle handler that ends after its first dispatch was called for an item
\* rendered done and has dispatched the toggle only.
C18_DecidesFromRenderedDone ==
  [][/\ pc = "showDoneNotification" =>
          /\ doneNotificationVisible'
          /\ pc' = "idle"
          /\ items' = items
     /\ (pc = "idle" /\ pc' = "showDoneNotification") =>
          \E k \in 1..Len(view.items) :
            /\ ~view.items[k].done
            /\ items' = toggleTodo(items, view.items[k].id)
            /\ ui' = ui
     /\ (pc = "idle" /\ pc' = "idle" /\ last'.op = "toggleTodo"
           /\ view' = view) =>
          \E k \in 1..Len(view.items) :
            /\ view.items[k].done
            /\ items' = toggleTodo(items, view.items[k].id)
            /\ ui' = ui]_vars

\* the handler has run to its end for the one rendered item, rendered undone,
\* whose task was no longer in the store: nothing rose, the notification is up
C18_Witness ==
  /\ pc = "idle"
  /\ last.op = "toggleTodo"
  /\ last.notified = 2
  /\ ~last.rose
  /\ ~last.fell
  /\ ~last.dnv0
  /\ doneNotificationVisible
  /\ Len(view.items) = 1
  /\ ~view.items[1].done
  /\ items = <<>>

\* C19: "Clear Completed" is there to press only when a rendered item is
\* done, so when it is pressed in a view that shows the store as it is, a
\* task is done and clearTodos makes the collection strictly shorter.
C19_ClearShortens ==
  [][(/\ pc = "idle"
      /\ last'.op = "clearTodos"
      /\ view' = view
      /\ view = snapshot(items, showBanner, doneNotificationVisible)) =>
       /\ doneExists(items)
       /\ Len(items') < Len(items)]_vars

\* the view still shows the three tasks as they were when the button was
\* pressed, two of them done; the store holds the one that was undone
C19_Witness ==
  /\ last.op = "clearTodos"
  /\ last.changed
  /\ Len(view.items) = 3
  /\ Len(items) = 1
  /\ \A k \in 1..3 : view.items[k].done <=> view.items[k].id # items[1].id

====
